---- MODULE Spec2Model ----
(***************************************************************************)
(* EZPROM: objects stored in EEPROM under an id.  The data region grows    *)
(* from address 0, the ObjectData array (id, size) sits right before the   *)
(* last byte of EEPROM, and the last byte holds the amount of objects.     *)
(*                                                                         *)
(* The EEPROM is a sequence of bytes; address a is element a + 1.          *)
(* Target is AVR: size_t, int and uint16_t are 16 bits wide,               *)
(* sizeof(ObjectData) is 3 (no padding), integers are little-endian.       *)
(***************************************************************************)
EXTENDS Integers, Sequences, FiniteSets, TLC

\* ------------------------------------------------------------------ bounds
\* EEPROM.length() of the small store explored exhaustively.
Capacity == 10
\* ids passed to save/remove are 0..MaxId.
MaxId == 2
\* objects passed to save have 0..MaxSize bytes.
MaxSize == 2
\* bytes of an object are 0..MaxByte.
MaxByte == 1
\* EEPROM.length() of the store that is filled with 256 objects (the 1 KB
\* of an ATmega328P).
ByteCapacity == 1024
\* EEPROM.length() of the store that sizes near 2^16 are saved into.
WideCapacity == 16
\* every byte of an object of such a size is one of 0..MaxFill.
MaxFill == 2
\* EEPROM.length() of the store in which three objects with data are moved.
MoveCapacity == 14

\* --------------------------------------------------------- program constants
\* uint16_t arithmetic (ObjectData::size, totalSize, addresses).
U16 == 65536
\* uint8_t arithmetic (ObjectData::id, objectAmount).
U8 == 256
\* sizeof (ObjectData): uint8_t id + uint16_t size.
SizeofObjectData == 3

VARIABLES
    mem,                \* the EEPROM contents
    overwriteDiffSize,  \* EZPROM::overwriteDiffSize
    call,               \* the last call made: operation, arguments, result
    live                \* ids saved successfully and not removed since (history)

vars == <<mem, overwriteDiffSize, call, live>>

Ids == 0..MaxId
ByteVals == 0..MaxByte

\* ------------------------------------------------------------- EEPROM access
\* EEPROM.length()
EEPROMlength(m) == Len(m)

\* The cell an access to address a lands on.  The index is a 16-bit value;
\* the EEPROM address register implements only the bits the device has, so
\* an address past the end wraps around.
EEcell(m, a) == ((a % U16) % Len(m)) + 1

\* EEPROM.read(a)
EEread(m, a) == m[EEcell(m, a)]

\* EEPROM.update(a, v): written only if different; the contents afterwards
\* are those of a write.
EEupdate(m, a, v) == [m EXCEPT ![EEcell(m, a)] = v]

\* ------------------------------------------------------------ caller objects
\* An object handed to save: `size` is sizeof (T) * elements (mod 2^16), its
\* first bytes are `bytes`, any further byte is `fill`.
SrcByte(src, i) == IF i < Len(src.bytes) THEN src.bytes[i + 1] ELSE src.fill

RECURSIVE SeqsUpTo(_)
SeqsUpTo(n) ==
    IF n = 0 THEN {<<>>}
    ELSE LET shorter == SeqsUpTo(n - 1)
         IN  shorter \cup {Append(s, b) : s \in {t \in shorter : Len(t) = n - 1},
                                          b \in ByteVals}

Objects == {[size |-> Len(b), bytes |-> b, fill |-> 0] : b \in SeqsUpTo(MaxSize)}

\* The buffers handed to load: MaxSize bytes, all the same.
Dests == {[i \in 1..MaxSize |-> b] : b \in ByteVals}

NoObject == [size |-> 0, bytes |-> <<>>, fill |-> 0]

\* ------------------------------------------------------------ the directory
\* getObjectAmount(): the last byte of EEPROM.
getObjectAmount(m) == EEread(m, EEPROMlength(m) - 1)

\* startingAddress of saveObjectData / loadObjectData (uint16_t).
startingAddress(m, objectAmount) ==
    (EEPROMlength(m) - (1 + SizeofObjectData * objectAmount)) % U16

\* EEPROM.get(address, objectData[i])
getObjectDataAt(m, address) ==
    [id   |-> EEread(m, address),
     size |-> EEread(m, address + 1) + U8 * EEread(m, address + 2)]

\* loadObjectData(objectData, objectAmount): entry i of the code is element
\* i + 1 of the sequence.
loadObjectData(m, objectAmount) ==
    LET objectData == [k \in 1..objectAmount |->
                          getObjectDataAt(m, startingAddress(m, objectAmount)
                                             + (k - 1) * SizeofObjectData)]
    IN  SubSeq(objectData, 1, objectAmount)

\* EEPROM.put(address, objectData): its three bytes, each by update.
putObjectDataAt(m, address, od) ==
    EEupdate(EEupdate(EEupdate(m, address, od.id),
                      address + 1, od.size % U8),
             address + 2, od.size \div U8)

\* The for loop of saveObjectData, iterations lo..hi-1 in order: the first
\* half of them, then on its result the second half.  (The test on Len has
\* the first half evaluated before the second is entered; it is always true.)
RECURSIVE saveObjectDataLoop(_, _, _, _, _)
saveObjectDataLoop(m, sa, objectData, lo, hi) ==
    IF lo >= hi THEN m
    ELSE IF hi = lo + 1
         THEN putObjectDataAt(m, sa + lo * SizeofObjectData, objectData[lo + 1])
         ELSE LET mid  == (lo + hi) \div 2
                  done == saveObjectDataLoop(m, sa, objectData, lo, mid)
              IN  IF Len(done) = Len(m)
                  THEN saveObjectDataLoop(done, sa, objectData, mid, hi)
                  ELSE done

\* saveObjectData(objectData, objectAmount); objectAmount is a uint8_t.
saveObjectData(m, objectData, objectAmount) ==
    LET sa == startingAddress(m, objectAmount)
        m1 == saveObjectDataLoop(m, sa, objectData, 0, objectAmount)
    IN  EEupdate(m1, EEPROMlength(m) - 1, objectAmount)

\* The sizes of entries lo..hi-1 added up in uint16_t, entries `skip`
\* left out (addition modulo 2^16 is associative, so the loop's running
\* total is the sum of the two halves).
RECURSIVE sumSizes(_, _, _, _)
sumSizes(objects, lo, hi, skip) ==
    IF lo >= hi THEN 0
    ELSE IF hi = lo + 1
         THEN IF lo \in skip THEN 0 ELSE objects[lo + 1].size
         ELSE LET mid == (lo + hi) \div 2
              IN  (sumSizes(objects, lo, mid, skip)
                   + sumSizes(objects, mid, hi, skip)) % U16

\* getAddress(objects, index): the sizes of the entries before index.
getAddress(objects, index) == sumSizes(objects, 0, index, {})

\* The search loop shared by save, load, remove: hasId and index.
hasIdIn(objects, id) == \E k \in 1..Len(objects) : objects[k].id = id

indexIn(objects, id) ==
    IF hasIdIn(objects, id)
    THEN (CHOOSE k \in 1..Len(objects) :
              /\ objects[k].id = id
              /\ \A j \in 1..(k - 1) : objects[j].id # id) - 1
    ELSE 0

\* ------------------------------------------------------------------ queries
\* exists(id)
exists(m, id) == hasIdIn(loadObjectData(m, getObjectAmount(m)), id)

\* getAddress(id)
getAddressOf(m, id) ==
    LET objects == loadObjectData(m, getObjectAmount(m))
    IN  IF hasIdIn(objects, id)
        THEN getAddress(objects, indexIn(objects, id))
        ELSE EEPROMlength(m)

\* getObjectData(id)
getObjectData(m, id) ==
    LET objects == loadObjectData(m, getObjectAmount(m))
    IN  IF hasIdIn(objects, id)
        THEN objects[indexIn(objects, id) + 1]
        ELSE [id |-> id, size |-> 0]

\* load(id, dest): the return value and the bytes copied into dest.
load(m, id) ==
    LET objects == loadObjectData(m, getObjectAmount(m))
        index   == indexIn(objects, id)
        address == getAddress(objects, index)
    IN  IF hasIdIn(objects, id)
        THEN [ret  |-> TRUE,
              dest |-> [i \in 1..objects[index + 1].size |->
                           EEread(m, address + (i - 1))]]
        ELSE [ret |-> FALSE, dest |-> <<>>]

\* A load that copies the object at index 0 when the id is not found.
loadIntoUnchecked(m, id, dest) ==
    LET objects == loadObjectData(m, getObjectAmount(m))
        index   == indexIn(objects, id)
        address == getAddress(objects, index)
    IN  IF getObjectAmount(m) > 0
        THEN [mem  |-> m,
              ret  |-> hasIdIn(objects, id),
              dest |-> [i \in 1..Len(dest) |->
                           IF i <= objects[index + 1].size
                           THEN EEread(m, address + (i - 1))
                           ELSE dest[i]]]
        ELSE [mem |-> m, ret |-> FALSE, dest |-> dest]

\* load(id, dest) with the caller's buffer: the EEPROM afterwards (load
\* writes none of it), the return value, and the buffer afterwards, whose
\* first objects[index].size bytes are those read.
loadInto(m, id, dest) ==
    LET objects == loadObjectData(m, getObjectAmount(m))
        index   == indexIn(objects, id)
        address == getAddress(objects, index)
    IN  IF hasIdIn(objects, id)
        THEN [mem  |-> m,
              ret  |-> TRUE,
              dest |-> [i \in 1..Len(dest) |->
                           IF i <= objects[index + 1].size
                           THEN EEread(m, address + (i - 1))
                           ELSE dest[i]]]
        ELSE [mem |-> m, ret |-> FALSE, dest |-> dest]

\* ------------------------------------------------------------------- writes
\* ramToEEPROM(address, object, size): for (i = 0; i < size; i++)
\* EEPROM.update(address + i, ram[i]).  The bytes written do not depend on
\* the EEPROM, so a cell ends up holding ram[i] of the last i that lands on
\* it: the cells repeat every Len(m) addresses, and lastHit is the largest
\* i < size with EEcell(m, address + i) = c (-1: the loop never writes c).
lastHit(m, address, size, c) ==
    LET first == ((c - 1) - (address % U16)) % Len(m)
    IN  IF first >= size THEN -1
        ELSE first + Len(m) * ((size - 1 - first) \div Len(m))

ramToEEPROM(m, address, src, size) ==
    LET written == [c \in 1..Len(m) |->
                       IF lastHit(m, address, size, c) >= 0
                       THEN SrcByte(src, lastHit(m, address, size, c))
                       ELSE m[c]]
    IN  SubSeq(written, 1, Len(m))

\* An inner loop that moves the bytes of an object last to first.
RECURSIVE moveObjectLoopDown(_, _, _, _, _)
moveObjectLoopDown(m, newAddress, oldAddress, lo, hi) ==
    IF lo >= hi THEN m
    ELSE IF hi = lo + 1
         THEN EEupdate(m, newAddress + lo, EEread(m, oldAddress + lo))
         ELSE LET mid  == (lo + hi) \div 2
                  done == moveObjectLoopDown(m, newAddress, oldAddress, mid, hi)
              IN  IF Len(done) = Len(m)
                  THEN moveObjectLoopDown(done, newAddress, oldAddress, lo, mid)
                  ELSE done

\* remove: the inner loop that moves one object, bytes lo..hi-1 in order,
\* each read from the EEPROM as the earlier writes left it.
RECURSIVE moveObjectLoop(_, _, _, _, _)
moveObjectLoop(m, newAddress, oldAddress, lo, hi) ==
    IF lo >= hi THEN m
    ELSE IF hi = lo + 1
         THEN EEupdate(m, newAddress + lo, EEread(m, oldAddress + lo))
         ELSE LET mid  == (lo + hi) \div 2
                  done == moveObjectLoop(m, newAddress, oldAddress, lo, mid)
              IN  IF Len(done) = Len(m)
                  THEN moveObjectLoop(done, newAddress, oldAddress, mid, hi)
                  ELSE done

\* An updatedObjects that drops the last entry whatever the index.
withoutLast(objects, index) == SubSeq(objects, 1, Len(objects) - 1)

\* updatedObjects of remove: objects without entry index.
withoutIndex(objects, index) ==
    SubSeq(objects, 1, index) \o SubSeq(objects, index + 2, Len(objects))

\* remove: the outer loop over the objects behind the removed one,
\* iterations lo..hi-1 in order.
RECURSIVE moveObjectsLoop(_, _, _, _, _)
moveObjectsLoop(m, objects, updatedObjects, lo, hi) ==
    IF lo >= hi THEN m
    ELSE IF hi = lo + 1
         THEN moveObjectLoop(m, getAddress(updatedObjects, lo),
                             getAddress(objects, lo + 1),
                             0, updatedObjects[lo + 1].size)
         ELSE LET mid  == (lo + hi) \div 2
                  done == moveObjectsLoop(m, objects, updatedObjects, lo, mid)
              IN  IF Len(done) = Len(m)
                  THEN moveObjectsLoop(done, objects, updatedObjects, mid, hi)
                  ELSE done

\* remove(id): the EEPROM afterwards.
remove(m, id) ==
    LET objectAmount   == getObjectAmount(m)
        objects        == loadObjectData(m, objectAmount)
        index          == indexIn(objects, id)
        updatedObjects == withoutIndex(objects, index)
    IN  IF hasIdIn(objects, id)
        THEN saveObjectData(
                 moveObjectsLoop(m, objects, updatedObjects, index, objectAmount - 1),
                 updatedObjects, objectAmount - 1)
        ELSE m

\* save, hasId and overwriteDiffSize: totalSize of the store with entry
\* index replaced by an object of `size` bytes.
resizeTotalSize(objects, objectAmount, index, size) ==
    (sumSizes(objects, 0, objectAmount, {index})
     + 1 + SizeofObjectData * objectAmount
     + size) % U16

\* save, !hasSpace: totalSize of the store with one more object of `size`
\* bytes and its ObjectData.
insertTotalSize(objects, objectAmount, size) ==
    (sumSizes(objects, 0, objectAmount, {})
     + 1 + SizeofObjectData * objectAmount
     + size + SizeofObjectData) % U16

\* save, hasSpace: the object is appended behind the objects given.
insert(m, objects, objectAmount, id, src) ==
    LET updatedObjects == Append(objects, [id |-> id, size |-> src.size])
        index          == objectAmount
        m1 == ramToEEPROM(m, getAddress(updatedObjects, index), src,
                          updatedObjects[index + 1].size)
    IN  saveObjectData(m1, updatedObjects, (objectAmount + 1) % U8)

\* A save of an existing id that resizes whatever overwriteDiffSize says.
saveExistingAlways(m, flag, objects, objectAmount, index, id, src) ==
    IF objects[index + 1].size = src.size
    THEN [mem |-> ramToEEPROM(m, getAddress(objects, index), src,
                              objects[index + 1].size),
          ret |-> TRUE]
    ELSE IF resizeTotalSize(objects, objectAmount, index, src.size)
               <= EEPROMlength(m)
         THEN [mem |-> insert(remove(m, id), withoutIndex(objects, index),
                              objectAmount - 1, id, src),
               ret |-> TRUE]
         ELSE [mem |-> m, ret |-> FALSE]

\* A save of an existing id that removes the old object before it checks
\* the space.
saveExistingRemoveFirst(m, flag, objects, objectAmount, index, id, src) ==
    IF objects[index + 1].size = src.size
    THEN [mem |-> ramToEEPROM(m, getAddress(objects, index), src,
                              objects[index + 1].size),
          ret |-> TRUE]
    ELSE IF flag
    THEN IF resizeTotalSize(objects, objectAmount, index, src.size)
               <= EEPROMlength(m)
         THEN [mem |-> insert(remove(m, id), withoutIndex(objects, index),
                              objectAmount - 1, id, src),
               ret |-> TRUE]
         ELSE [mem |-> remove(m, id), ret |-> FALSE]
    ELSE [mem |-> m, ret |-> FALSE]

\* save, hasId: overwrite in place, or remove and insert again, or refuse.
saveExisting(m, flag, objects, objectAmount, index, id, src) ==
    IF objects[index + 1].size = src.size
    THEN [mem |-> ramToEEPROM(m, getAddress(objects, index), src,
                              objects[index + 1].size),
          ret |-> TRUE]
    ELSE IF flag
    THEN IF resizeTotalSize(objects, objectAmount, index, src.size)
               <= EEPROMlength(m)
         THEN [mem |-> insert(remove(m, id), withoutIndex(objects, index),
                              objectAmount - 1, id, src),
               ret |-> TRUE]
         ELSE [mem |-> m, ret |-> FALSE]
    ELSE [mem |-> m, ret |-> FALSE]

\* A save of a new id that writes the object before it checks the space.
saveNewEager(m, objects, objectAmount, id, src) ==
    IF insertTotalSize(objects, objectAmount, src.size) <= EEPROMlength(m)
    THEN [mem |-> insert(m, objects, objectAmount, id, src), ret |-> TRUE]
    ELSE [mem |-> ramToEEPROM(m, getAddress(objects, objectAmount), src,
                              src.size),
          ret |-> FALSE]

\* save, !hasId: insert if the space check passes.
saveNew(m, objects, objectAmount, id, src) ==
    IF insertTotalSize(objects, objectAmount, src.size) <= EEPROMlength(m)
    THEN [mem |-> insert(m, objects, objectAmount, id, src), ret |-> TRUE]
    ELSE [mem |-> m, ret |-> FALSE]

\* save(id, src, elements): the EEPROM afterwards and the return value.
save(m, flag, id, src) ==
    LET objectAmount == getObjectAmount(m)
        objects      == loadObjectData(m, objectAmount)
    IN  IF hasIdIn(objects, id)
        THEN saveExisting(m, flag, objects, objectAmount,
                          indexIn(objects, id), id, src)
        ELSE saveNew(m, objects, objectAmount, id, src)

\* A reset that erases the whole EEPROM.
resetErase(m) == [a \in 1..Len(m) |-> 0]

\* reset(): EEPROM.put(EEPROM.length() - 1, (uint8_t) 0)
reset(m) == EEupdate(m, EEPROMlength(m) - 1, 0)

\* --------------------------------------------------------- the unique int
\* The two bytes of a uint16_t in RAM, low byte first, and the value two
\* bytes of RAM hold.
uint16Object(uniqueInt) ==
    [size |-> 2, bytes |-> <<uniqueInt % U8, uniqueInt \div U8>>, fill |-> 0]

uint16Value(bytes) == bytes[1] + U8 * bytes[2]

\* isValid(uniqueInt, id): curInt is loaded when the id is stored with
\* sizeof(uint16_t) bytes and stays 0 otherwise.
isValid(m, uniqueInt, id) ==
    LET curInt == IF exists(m, id) /\ getObjectData(m, id).size = 2
                  THEN uint16Value(load(m, id).dest)
                  ELSE 0
    IN  curInt = uniqueInt

\* setUniqueId(uniqueInt, id): ezprom.save(id, uniqueInt); what save returns
\* is dropped by the code, ret is kept here for the caller's bookkeeping.
setUniqueId(m, flag, uniqueInt, id) == save(m, flag, id, uint16Object(uniqueInt))

\* setup(uniqueInt, id)
setup(m, flag, uniqueInt, id) ==
    IF ~isValid(m, uniqueInt, id)
    THEN [mem |-> setUniqueId(reset(m), flag, uniqueInt, id).mem, ret |-> TRUE]
    ELSE [mem |-> m, ret |-> FALSE]

\* ------------------------------------------- the writes issued to the cells
\* The same loops with the physical writes they issue to the objects' bytes
\* recorded: st.mem is the EEPROM, st.writes the writes issued so far, each
\* with the cell, the value it held and the value written.
\* An EEPROM.write: the cell is written whatever it holds.
EEwriteLogged(st, a, v) ==
    [mem    |-> EEupdate(st.mem, a, v),
     writes |-> Append(st.writes, [cell |-> EEcell(st.mem, a),
                                   old  |-> EEread(st.mem, a),
                                   new  |-> v])]

\* EEPROM.update(a, v): the cell is read, and written if it holds another
\* value.
EEupdateLogged(st, a, v) ==
    IF EEread(st.mem, a) = v
    THEN st
    ELSE [mem    |-> EEupdate(st.mem, a, v),
          writes |-> Append(st.writes, [cell |-> EEcell(st.mem, a),
                                        old  |-> EEread(st.mem, a),
                                        new  |-> v])]

\* ramToEEPROM, iterations lo..hi-1 in order.
RECURSIVE ramToEEPROMLogged(_, _, _, _, _)
ramToEEPROMLogged(st, address, src, lo, hi) ==
    IF lo >= hi THEN st
    ELSE IF hi = lo + 1
         THEN EEupdateLogged(st, address + lo, SrcByte(src, lo))
         ELSE LET mid  == (lo + hi) \div 2
                  done == ramToEEPROMLogged(st, address, src, lo, mid)
              IN  IF Len(done.mem) = Len(st.mem)
                  THEN ramToEEPROMLogged(done, address, src, mid, hi)
                  ELSE done

\* remove: the inner loop, iterations lo..hi-1 in order.
RECURSIVE moveObjectLogged(_, _, _, _, _)
moveObjectLogged(st, newAddress, oldAddress, lo, hi) ==
    IF lo >= hi THEN st
    ELSE IF hi = lo + 1
         THEN EEupdateLogged(st, newAddress + lo, EEread(st.mem, oldAddress + lo))
         ELSE LET mid  == (lo + hi) \div 2
                  done == moveObjectLogged(st, newAddress, oldAddress, lo, mid)
              IN  IF Len(done.mem) = Len(st.mem)
                  THEN moveObjectLogged(done, newAddress, oldAddress, mid, hi)
                  ELSE done

\* remove: the outer loop, iterations lo..hi-1 in order.
RECURSIVE moveObjectsLogged(_, _, _, _, _)
moveObjectsLogged(st, objects, updatedObjects, lo, hi) ==
    IF lo >= hi THEN st
    ELSE IF hi = lo + 1
         THEN moveObjectLogged(st, getAddress(updatedObjects, lo),
                               getAddress(objects, lo + 1),
                               0, updatedObjects[lo + 1].size)
         ELSE LET mid  == (lo + hi) \div 2
                  done == moveObjectsLogged(st, objects, updatedObjects, lo, mid)
              IN  IF Len(done.mem) = Len(st.mem)
                  THEN moveObjectsLogged(done, objects, updatedObjects, mid, hi)
                  ELSE done

\* remove(id) continuing st: the directory is saved after the moves.
removeLogged(st, id) ==
    LET objectAmount   == getObjectAmount(st.mem)
        objects        == loadObjectData(st.mem, objectAmount)
        index          == indexIn(objects, id)
        updatedObjects == withoutIndex(objects, index)
        moved == moveObjectsLogged(st, objects, updatedObjects,
                                   index, objectAmount - 1)
    IN  IF hasIdIn(objects, id)
        THEN [mem    |-> saveObjectData(moved.mem, updatedObjects, objectAmount - 1),
              writes |-> moved.writes]
        ELSE st

\* save, hasSpace, continuing st.
insertLogged(st, objects, objectAmount, id, src) ==
    LET updatedObjects == Append(objects, [id |-> id, size |-> src.size])
        index          == objectAmount
        written == ramToEEPROMLogged(st, getAddress(updatedObjects, index), src,
                                     0, updatedObjects[index + 1].size)
    IN  [mem    |-> saveObjectData(written.mem, updatedObjects,
                                   (objectAmount + 1) % U8),
         writes |-> written.writes]

\* save(id, src, elements) from the EEPROM m with nothing written yet.
saveLogged(m, flag, id, src) ==
    LET st           == [mem |-> m, writes |-> <<>>]
        objectAmount == getObjectAmount(m)
        objects      == loadObjectData(m, objectAmount)
        index        == indexIn(objects, id)
    IN  IF hasIdIn(objects, id)
        THEN IF objects[index + 1].size = src.size
             THEN ramToEEPROMLogged(st, getAddress(objects, index), src,
                                    0, objects[index + 1].size)
             ELSE IF flag /\ resizeTotalSize(objects, objectAmount, index, src.size)
                               <= EEPROMlength(m)
                  THEN insertLogged(removeLogged(st, id),
                                    withoutIndex(objects, index),
                                    objectAmount - 1, id, src)
                  ELSE st
        ELSE IF insertTotalSize(objects, objectAmount, src.size) <= EEPROMlength(m)
             THEN insertLogged(st, objects, objectAmount, id, src)
             ELSE st

\* ------------------------------------------------------------------ actions
\* What `call` records of a call besides its arguments and result: hasId,
\* index and the stored size are what the search loop finds on entry; for a
\* load, src.bytes is the caller's buffer before and dest the buffer after;
\* `resave` says that the call before it was the same call and found the
\* id stored with the size of the object.
CallOf(op, id, src, ret) ==
    LET objects == loadObjectData(mem, getObjectAmount(mem))
        hasId   == hasIdIn(objects, id)
        index   == indexIn(objects, id)
    IN  [op |-> op, id |-> id, src |-> src, ret |-> ret, dest |-> <<>>,
         hasId |-> hasId, index |-> index,
         size  |-> IF hasId THEN objects[index + 1].size ELSE 0,
         resave |-> /\ call.op = op /\ call.id = id /\ call.src = src
                    /\ call.hasId /\ call.size = src.size]

NoCall(op, ret) ==
    [op |-> op, id |-> 0, src |-> NoObject, ret |-> ret, dest |-> <<>>,
     hasId |-> FALSE, index |-> 0, size |-> 0, resave |-> FALSE]

SaveCall(id, src) ==
    LET r == save(mem, overwriteDiffSize, id, src)
    IN  /\ mem' = r.mem
        /\ call' = CallOf("save", id, src, r.ret)
        /\ live' = IF r.ret THEN live \cup {id} ELSE live
        /\ UNCHANGED overwriteDiffSize

Save == \E id \in Ids, src \in Objects : SaveCall(id, src)

RemoveCall(id) ==
    /\ mem' = remove(mem, id)
    /\ call' = CallOf("remove", id, NoObject, TRUE)
    /\ live' = live \ {id}
    /\ UNCHANGED overwriteDiffSize

Remove == \E id \in Ids : RemoveCall(id)

LoadCall(id, dest) ==
    LET r == loadInto(mem, id, dest)
        buffer == [size |-> Len(dest), bytes |-> dest, fill |-> 0]
    IN  /\ mem' = r.mem
        /\ call' = [CallOf("load", id, buffer, r.ret) EXCEPT !.dest = r.dest]
        /\ UNCHANGED <<overwriteDiffSize, live>>

Load == \E id \in Ids, dest \in Dests : LoadCall(id, dest)

Reset ==
    /\ mem' = reset(mem)
    /\ call' = NoCall("reset", TRUE)
    /\ live' = {}
    /\ UNCHANGED overwriteDiffSize

SetOverwriteIfSizeDifferent ==
    \E b \in BOOLEAN :
        /\ overwriteDiffSize' = b
        /\ call' = NoCall("setOverwriteIfSizeDifferent", b)
        /\ UNCHANGED <<mem, live>>

\* A zeroed EEPROM after reset(); overwriteDiffSize = false.
EmptyStore(n) == [a \in 1..n |-> 0]

Init ==
    /\ mem = EmptyStore(Capacity)
    /\ overwriteDiffSize = FALSE
    /\ call = NoCall("reset", TRUE)
    /\ live = {}

Next == Save \/ Remove \/ Reset \/ SetOverwriteIfSizeDifferent

Spec == Init /\ [][Next]_vars

\* ------------------------------------------------ the store with its setup
\* The unique ints whose two bytes are bytes the caller saves.
UniqueInts == {lo + U8 * hi : lo \in ByteVals, hi \in ByteVals}

SetupCall(uniqueInt, id) ==
    LET r == setup(mem, overwriteDiffSize, uniqueInt, id)
    IN  /\ mem' = r.mem
        /\ call' = CallOf("setup", id, uint16Object(uniqueInt), r.ret)
        /\ live' = IF r.ret
                   THEN {i \in {id} : setUniqueId(reset(mem), overwriteDiffSize,
                                                  uniqueInt, id).ret}
                   ELSE live
        /\ UNCHANGED overwriteDiffSize

Setup == \E uniqueInt \in UniqueInts, id \in Ids : SetupCall(uniqueInt, id)

\* The caller saves and removes, and calls setup at any time.
NextSetup == Save \/ Remove \/ Setup

SpecSetup == Init /\ [][NextSetup]_vars

\* ------------------------------------------------- the store with its reader
\* The caller saves, removes and loads; overwriteDiffSize keeps its default.
NextLoad == Save \/ Remove \/ Load

SpecLoad == Init /\ [][NextLoad]_vars

\* ------------------------------------------ a store with room for three objects
\* The caller saves under id k an object of (k % MaxSize) + 1 bytes, no
\* two bytes in the store alike (byte i of it is MaxSize * k + i), and
\* removes.
MoveObject(id) ==
    [size  |-> (id % MaxSize) + 1,
     bytes |-> [i \in 1..((id % MaxSize) + 1) |-> MaxSize * id + i],
     fill  |-> 0]

SaveMove == \E id \in Ids : SaveCall(id, MoveObject(id))

InitMove ==
    /\ mem = EmptyStore(MoveCapacity)
    /\ overwriteDiffSize = FALSE
    /\ call = NoCall("reset", TRUE)
    /\ live = {}

NextMove == SaveMove \/ Remove

SpecMove == InitMove /\ [][NextMove]_vars

\* ---------------------------------------------- a store of 1024 bytes, filled
\* The caller saves empty objects under the ids 0, 1, 2, ..., each time the
\* amount of objects the store reports, and removes the one with id 0.
FillSave == SaveCall(getObjectAmount(mem), NoObject)

FillRemove == RemoveCall(0)

InitByte ==
    /\ mem = EmptyStore(ByteCapacity)
    /\ overwriteDiffSize = FALSE
    /\ call = NoCall("reset", TRUE)
    /\ live = {}

NextByte == FillSave \/ FillRemove

SpecByte == InitByte /\ [][NextByte]_vars

\* ------------------------------------- sizes up to the last uint16_t value
\* save called under id 0 with a size near 2^16, every byte of the object
\* being `fill`.
WideSizes == {U16 - 1, U16 - 3}

WideObjects ==
    {[size |-> s, bytes |-> <<>>, fill |-> b] : s \in WideSizes, b \in 0..MaxFill}

SaveWide == \E src \in WideObjects : SaveCall(0, src)

InitWide ==
    /\ mem = EmptyStore(WideCapacity)
    /\ overwriteDiffSize = FALSE
    /\ call = NoCall("reset", TRUE)
    /\ live = {}

NextWide == SaveWide \/ Remove \/ Reset \/ SetOverwriteIfSizeDifferent

SpecWide == InitWide /\ [][NextWide]_vars

\* ------------------------------------------------------------ the properties
\* The directory the store holds: entries 0..count-1.
Directory(m) == loadObjectData(m, getObjectAmount(m))

\* The sizes of entries lo..hi-1 added up as integers (no wrap).
RECURSIVE dataBytes(_, _, _)
dataBytes(objects, lo, hi) ==
    IF lo >= hi THEN 0
    ELSE IF hi = lo + 1
         THEN objects[lo + 1].size
         ELSE LET mid == (lo + hi) \div 2
              IN  dataBytes(objects, lo, mid) + dataBytes(objects, mid, hi)

\* Bytes the store needs: all objects, the count byte, the ObjectData array.
usedBytes(m) ==
    dataBytes(Directory(m), 0, getObjectAmount(m))
    + 1 + SizeofObjectData * getObjectAmount(m)

\* The bytes of the object a call was given.
bytesOf(src) == [i \in 1..src.size |-> SrcByte(src, i - 1)]

\* C1: whenever save(id, bytes, s) has returned true, load(id, dest) on the
\* store it left returns true and copies exactly the s bytes saved, and
\* getObjectData(id).size is s.
C1_RoundTrip ==
    (call.op = "save" /\ call.ret) =>
        /\ load(mem, call.id).ret
        /\ load(mem, call.id).dest = bytesOf(call.src)
        /\ getObjectData(mem, call.id).size = call.src.size

\* C2: in every reachable state the ids of the directory entries 0..count-1
\* are pairwise distinct.
C2_UniqueIds ==
    LET objects == Directory(mem)
    IN  \A i, j \in 1..Len(objects) : objects[i].id = objects[j].id => i = j

\* C3: after every operation the sizes of all directory entries, the count
\* byte and three bytes for each entry fit the EEPROM, so the data region
\* stays clear of the directory.
C3_Fits == usedBytes(mem) <= EEPROMlength(mem)

\* C4: after every operation the count byte is the number of live ids, also
\* when 256 ids are live.
C4_CountIsLive == getObjectAmount(mem) = Cardinality(live)

\* C5: remove(id) of an id present at index i lowers the count by one, keeps
\* the other entries' ids, sizes and order, leaves the address of every entry
\* before i as it was and lowers the address of every entry behind i by the
\* removed size; every address is the sum of the sizes before it, and it is
\* the address getAddress(id) reports.
C5_RemoveCompacts ==
    [][ (call'.op = "remove" /\ hasIdIn(Directory(mem), call'.id)) =>
            LET before == Directory(mem)
                after  == Directory(mem')
                i      == indexIn(before, call'.id)
            IN  /\ getObjectAmount(mem') = getObjectAmount(mem) - 1
                /\ \A k \in 0..(getObjectAmount(mem') - 1) :
                       LET old == IF k < i THEN k ELSE k + 1
                       IN  /\ after[k + 1] = before[old + 1]
                           /\ getAddress(after, k)
                                = getAddress(before, old)
                                  - (IF k < i THEN 0 ELSE before[i + 1].size)
                           /\ getAddress(after, k) = dataBytes(after, 0, k)
                           /\ getAddressOf(mem', after[k + 1].id)
                                = getAddress(after, k)
      ]_vars

\* C5 case: the first object, not empty, was removed and a non-empty object
\* behind it moved down.
C5_Witness ==
    /\ call.op = "remove" /\ call.hasId
    /\ call.index = 0 /\ call.size > 0
    /\ getObjectAmount(mem) >= 1
    /\ Directory(mem)[1].size > 0

\* C6: with overwriteDiffSize false, save onto an id stored with another
\* size returns false and changes no byte of the EEPROM; load(id) gives what
\* it gave before.
C6_ResizeRejected ==
    [][ (/\ call'.op = "save"
         /\ ~overwriteDiffSize
         /\ hasIdIn(Directory(mem), call'.id)
         /\ getObjectData(mem, call'.id).size # call'.src.size) =>
            /\ call'.ret = FALSE
            /\ mem' = mem
            /\ load(mem', call'.id) = load(mem, call'.id)
      ]_vars

\* C6 case: such a save was refused.
C6_Witness ==
    /\ call.op = "save" /\ call.hasId /\ ~call.ret
    /\ ~overwriteDiffSize
    /\ call.size # call.src.size
    /\ call.size > 0

\* C7: a save of an id that was absent which returns false changes no byte
\* of the EEPROM.
C7_FailedInsertChangesNothing ==
    [][ (/\ call'.op = "save"
         /\ ~hasIdIn(Directory(mem), call'.id)
         /\ call'.ret = FALSE) => mem' = mem
      ]_vars

\* C7 case: a save of a new id, not empty, failed in a store holding objects.
C7_Witness ==
    /\ call.op = "save" /\ ~call.hasId /\ ~call.ret
    /\ call.src.size > 0
    /\ getObjectAmount(mem) > 0

\* C8: a save of a new id of any size s in 0..65535 returns false and changes
\* nothing whenever sum(sizes) + 1 + 3 * (count + 1) + s, as integers,
\* exceeds the EEPROM length.
C8_NoSpaceFails ==
    [][ (/\ call'.op = "save"
         /\ ~hasIdIn(Directory(mem), call'.id)
         /\ usedBytes(mem) + SizeofObjectData + call'.src.size
              > EEPROMlength(mem)) =>
            /\ call'.ret = FALSE
            /\ mem' = mem
      ]_vars

\* A save onto an existing id with another size, overwriteDiffSize true,
\* whose space check (totalSize <= EEPROM.length()) fails.
failedResize(m, flag, c) ==
    /\ c.op = "save"
    /\ flag
    /\ hasIdIn(Directory(m), c.id)
    /\ getObjectData(m, c.id).size # c.src.size
    /\ resizeTotalSize(Directory(m), getObjectAmount(m),
                       indexIn(Directory(m), c.id), c.src.size)
         > EEPROMlength(m)

\* C9 as stated: with overwriteDiffSize true, a save onto an existing id with
\* another size whose space check fails returns false and has removed the
\* old entry: the id no longer exists and the count is one less.
C9_RemovalCommitted ==
    [][ failedResize(mem, overwriteDiffSize, call') =>
            /\ call'.ret = FALSE
            /\ ~exists(mem', call'.id)
            /\ getObjectAmount(mem') = getObjectAmount(mem) - 1
      ]_vars

\* C9: with overwriteDiffSize true, a save onto an existing id with another
\* size whose space check fails returns false and changes no byte of the
\* EEPROM: the id still exists with its old size and the count is the same.
C9_FailedResizeChangesNothing ==
    [][ failedResize(mem, overwriteDiffSize, call') =>
            /\ call'.ret = FALSE
            /\ mem' = mem
            /\ exists(mem', call'.id)
            /\ getObjectData(mem', call'.id) = getObjectData(mem, call'.id)
            /\ getObjectAmount(mem') = getObjectAmount(mem)
      ]_vars

\* C9 case: such a save was refused for lack of room.
C9_Witness ==
    /\ call.op = "save" /\ call.hasId /\ ~call.ret
    /\ overwriteDiffSize
    /\ call.size # call.src.size

\* C10: a save onto an id stored with the size of the object returns true,
\* and a second save of the same object under the same id returns true and
\* changes no byte of the EEPROM.
C10_IdempotentOverwrite ==
    [][ /\ (/\ call'.op = "save"
            /\ hasIdIn(Directory(mem), call'.id)
            /\ getObjectData(mem, call'.id).size = call'.src.size) =>
               call'.ret = TRUE
        /\ (call'.op = "save" /\ call'.resave) =>
               (call.ret = TRUE /\ call'.ret = TRUE /\ mem' = mem)
      ]_vars

\* C11: reset() sets the count byte at the last address to 0 and changes no
\* other byte; afterwards exists(id) is false and load(id) returns false
\* for every id, the ids saved before the reset included.
C11_ResetFrame ==
    [][ call'.op = "reset" =>
            /\ mem' = [mem EXCEPT ![EEPROMlength(mem)] = 0]
            /\ \A id \in (0..(U8 - 1)) \cup live :
                   ~exists(mem', id) /\ ~load(mem', id).ret
      ]_vars

\* C11 case: a reset of a store that held an object of two bytes, whose
\* directory entry is still in the EEPROM.
C11_Witness ==
    /\ call.op = "reset"
    /\ getObjectAmount(mem) = 0
    /\ getObjectDataAt(mem, startingAddress(mem, 1)).size = 2
    /\ \E a \in 1..2 : mem[a] # 0

\* C12: load(id, dest) of an id that is not in the directory returns false,
\* leaves every byte of dest as it was and changes no byte of the EEPROM.
C12_LoadAbsent ==
    [][ (call'.op = "load" /\ ~hasIdIn(Directory(mem), call'.id)) =>
            /\ call'.ret = FALSE
            /\ call'.dest = call'.src.bytes
            /\ mem' = mem
      ]_vars

\* C12 case: a load of an absent id into a buffer of ones, from a store
\* whose first object is not empty and starts with a zero.
C12_Witness ==
    /\ call.op = "load" /\ ~call.hasId /\ ~call.ret
    /\ call.src.bytes[1] = 1
    /\ getObjectAmount(mem) > 0
    /\ Directory(mem)[1].size > 0
    /\ mem[1] = 0

\* C13: remove(id) of a present id keeps the contents of every other object:
\* for every other id j in the directory, load(j) returns after the remove
\* the bytes it returned before, also when the object moved overlaps its old
\* place and when several objects follow the removed one.
C13_RemoveKeepsOthers ==
    [][ (call'.op = "remove" /\ hasIdIn(Directory(mem), call'.id)) =>
            \A j \in Ids \ {call'.id} :
                exists(mem, j) =>
                    /\ load(mem', j).ret
                    /\ load(mem', j) = load(mem, j)
      ]_vars

\* C13 case: the first object, of one byte, was removed; the object behind
\* it has two bytes (it moved down by one, onto its own old place) and a
\* third object followed.
C13_Witness ==
    /\ call.op = "remove" /\ call.hasId
    /\ call.index = 0 /\ call.size = 1
    /\ getObjectAmount(mem) = 2
    /\ Directory(mem)[1].size = 2
    /\ Directory(mem)[2].size = 1

\* C14: a save that returns true and inserts a new id, or overwrites an id
\* stored with the same size, leaves every other object as it was: for every
\* other id j, getObjectData(j), getAddress(j) and what load(j) returns are
\* the same before and after; an inserted entry is the last of the directory
\* and its address is the sum of the sizes stored before.
C14_SaveKeepsOthers ==
    [][ (/\ call'.op = "save" /\ call'.ret
         /\ \/ ~hasIdIn(Directory(mem), call'.id)
            \/ getObjectData(mem, call'.id).size = call'.src.size) =>
            /\ \A j \in Ids \ {call'.id} :
                   /\ getObjectData(mem', j) = getObjectData(mem, j)
                   /\ getAddressOf(mem', j) = getAddressOf(mem, j)
                   /\ load(mem', j) = load(mem, j)
            /\ ~hasIdIn(Directory(mem), call'.id) =>
                   /\ getObjectAmount(mem') = getObjectAmount(mem) + 1
                   /\ Directory(mem')[getObjectAmount(mem) + 1]
                        = [id |-> call'.id, size |-> call'.src.size]
                   /\ getAddressOf(mem', call'.id)
                        = dataBytes(Directory(mem), 0, getObjectAmount(mem))
      ]_vars

\* C15: with overwriteDiffSize true, a save of M bytes onto an id stored with
\* another size returns true exactly when the sizes of the other entries
\* + 1 + 3 * count + M, as integers, fit the EEPROM; when it does, the count
\* is unchanged, the id is the last directory entry with size M, load(id)
\* returns the bytes saved, the other entries keep their order and load(j)
\* returns for every other id j what it returned before.
C15_Resize ==
    [][ (/\ call'.op = "save"
         /\ overwriteDiffSize
         /\ hasIdIn(Directory(mem), call'.id)
         /\ getObjectData(mem, call'.id).size # call'.src.size) =>
            LET before == Directory(mem)
                after  == Directory(mem')
                n      == getObjectAmount(mem)
                i      == indexIn(before, call'.id)
                fits   == usedBytes(mem) - before[i + 1].size + call'.src.size
                            <= EEPROMlength(mem)
            IN  /\ call'.ret = fits
                /\ call'.ret =>
                       /\ getObjectAmount(mem') = n
                       /\ after[n] = [id |-> call'.id, size |-> call'.src.size]
                       /\ load(mem', call'.id)
                            = [ret |-> TRUE, dest |-> bytesOf(call'.src)]
                       /\ \A k \in 0..(n - 2) :
                              after[k + 1]
                                = before[(IF k < i THEN k ELSE k + 1) + 1]
                       /\ \A j \in Ids \ {call'.id} :
                              load(mem', j) = load(mem, j)
      ]_vars

\* C16: remove(id) of an id that is not in the directory writes nothing,
\* every byte of the EEPROM is as before; so the second of two remove(id)
\* in a row changes nothing, and two of them leave what one leaves.
C16_RemoveAbsent ==
    [][ /\ (call'.op = "remove" /\ ~hasIdIn(Directory(mem), call'.id)) =>
               mem' = mem
        /\ (call'.op = "remove" /\ call.op = "remove" /\ call'.id = call.id) =>
               mem' = mem
        /\ call'.op = "remove" =>
               remove(mem', call'.id) = mem'
      ]_vars

\* What a call c made in the EEPROM m writes: the EEPROM afterwards and the
\* physical writes to the objects' bytes.
writesOf(m, flag, c) ==
    IF c.op = "save" THEN saveLogged(m, flag, c.id, c.src)
    ELSE IF c.op = "remove" THEN removeLogged([mem |-> m, writes |-> <<>>], c.id)
    ELSE [mem |-> m, writes |-> <<>>]

\* C17: every physical write that save (overwriting in place, inserting) and
\* remove (moving the objects behind) issue to a byte of an object changes
\* the byte: none is issued to a cell that already holds the value written.
\* (The loops recorded leave the EEPROM the call leaves.)
C17_WriteIfChanged ==
    [][ call'.op \in {"save", "remove"} =>
            LET done == writesOf(mem, overwriteDiffSize, call')
            IN  /\ done.mem = mem'
                /\ \A k \in 1..Len(done.writes) :
                       done.writes[k].old # done.writes[k].new
      ]_vars

\* C17 case: an object of two bytes was saved again with the same bytes, all
\* of them in the EEPROM already, in a store holding another object.
C17_Witness ==
    /\ call.op = "save" /\ call.ret /\ call.resave
    /\ call.size = 2
    /\ getObjectAmount(mem) = 2

\* C18: in every reachable state and for every id the queries agree:
\* exists(id) iff load(id, dest) returns true iff getAddress(id) is not
\* EEPROM.length(); for an absent id getAddress(id) is EEPROM.length() and
\* getObjectData(id) is {id, 0}; for a present id the object ends before the
\* directory: getAddress(id) + getObjectData(id).size
\* <= EEPROM.length() - 1 - 3 * count.
C18_QueriesAgree ==
    \A id \in 0..(U8 - 1) :
        /\ exists(mem, id) <=> load(mem, id).ret
        /\ exists(mem, id) <=> getAddressOf(mem, id) # EEPROMlength(mem)
        /\ ~exists(mem, id) =>
               /\ getAddressOf(mem, id) = EEPROMlength(mem)
               /\ getObjectData(mem, id) = [id |-> id, size |-> 0]
        /\ exists(mem, id) =>
               getAddressOf(mem, id) + getObjectData(mem, id).size
                   <= EEPROMlength(mem) - 1
                      - SizeofObjectData * getObjectAmount(mem)

\* C19: after setup(u, id) has returned, from any state and for any u, 0
\* included, the store holds an object of two bytes under id whose value is
\* u, and isValid(u, id) is true; when setup returned true the directory is
\* that one entry, and when it returned false no byte of the EEPROM changed.
C19_Setup ==
    [][ call'.op = "setup" =>
            LET id == call'.id
                u  == uint16Value(call'.src.bytes)
            IN  /\ exists(mem', id)
                /\ getObjectData(mem', id).size = 2
                /\ load(mem', id).dest = call'.src.bytes
                /\ isValid(mem', u, id)
                /\ call'.ret => Directory(mem') = <<[id |-> id, size |-> 2]>>
                /\ ~call'.ret => mem' = mem
      ]_vars

====
